---- MODULE Spec2Model ----
(***************************************************************************)
(* The L51 type checker (part3/src/L5/L5-typecheck.ts): program            *)
(* introspection, the subtype and cover engine, the initial type           *)
(* environment, the user-defined-type and type-case validators and the     *)
(* expression typer, as operators over the AST; every exported entry       *)
(* point is an action applied to a program drawn from a bounded family.    *)
(***************************************************************************)
EXTENDS Integers, Sequences, FiniteSets, TLC

VARIABLES
    p,          \* the program under check (the AST object the checker is handed)
    ramda,      \* which implementation of ramda's intersection is installed
    call,       \* the entry point that ran last, with its arguments
    ast,        \* the expression object that call was handed, as the call left it
    res,        \* what that entry point returned
    optimistic, \* part2: the flag the reactive table service was made with
    observers,  \* part2: the subscribed observers, in subscription order
    _table,     \* part2: the table the service holds
    remote,     \* part2: the table behind sync
    ops,        \* part2: the calls of set and delete, each with its position
    last,       \* part2: the call that took the latest step
    got         \* part2: what the latest get returned or threw

checkerVars == <<p, ramda, call, ast, res>>
serviceVars == <<optimistic, observers, _table, remote, ops, last, got>>
vars == <<p, ramda, call, ast, res, optimistic, observers, _table, remote, ops, last, got>>

(***************************************************************************)
(* Bounds of the model.                                                    *)
(***************************************************************************)
MaxRecords == 2     \* records per generated type definition
MaxFields == 2      \* fields per record handed to checkUserDefinedTypes
MaxCases == 2       \* clauses per generated type-case
MaxOps == 3         \* calls of set and delete made on one reactive table service
MaxObservers == 1   \* observers subscribed to one reactive table service
MaxVal == 1         \* the values a table holds are 1..MaxVal

(***************************************************************************)
(* shared/list, shared/result                                              *)
(***************************************************************************)
first(l) == Head(l)
rest(l) == Tail(l)
cons(x, l) == <<x>> \o l
isEmpty(l) == l = <<>>

Range(s) == {s[i] : i \in 1..Len(s)}
Map(f(_), s) == [i \in 1..Len(s) |-> f(s[i])]

RECURSIVE flatten(_)
flatten(ll) == IF ll = <<>> THEN <<>> ELSE Head(ll) \o flatten(Tail(ll))

makeOk(v) == [tag |-> "Ok", value |-> v]
makeFailure(m) == [tag |-> "Failure", message |-> m]
isOk(r) == r.tag = "Ok"
isFailure(r) == r.tag = "Failure"

bind(r, f(_)) == IF isOk(r) THEN f(r.value) ELSE r
mapv(r, f(_)) == IF isOk(r) THEN makeOk(f(r.value)) ELSE r

\* the payload of a Result<true>
true == [tag |-> "true"]

\* A failure message: its fixed text, and the rendered parts that follow it.
Msg(text, parts) == [text |-> text, parts |-> parts]

(***************************************************************************)
(* TExp: the type expressions.  A Record is a heap object: ref is its      *)
(* identity (where in the program it was declared), which === and          *)
(* Array.includes compare and which ramda's equals does not see.           *)
(***************************************************************************)
makeNumTExp == [tag |-> "NumTExp"]
makeBoolTExp == [tag |-> "BoolTExp"]
makeStrTExp == [tag |-> "StrTExp"]
makeVoidTExp == [tag |-> "VoidTExp"]
makeAnyTExp == [tag |-> "AnyTExp"]
makeLitTExp == [tag |-> "LitTExp"]
makeProcTExp(paramTEs, returnTE) ==
    [tag |-> "ProcTExp", paramTEs |-> paramTEs, returnTE |-> returnTE]
makeTVar(v) == [tag |-> "TVar", var |-> v]
makeUserDefinedNameTExp(typeName) == [tag |-> "UserDefinedNameTExp", typeName |-> typeName]
makeUserDefinedTExp(typeName, records) ==
    [tag |-> "UserDefinedTExp", typeName |-> typeName, records |-> records]
makeField(fieldName, te) == [tag |-> "Field", fieldName |-> fieldName, te |-> te]
makeRecord(typeName, fields, ref) ==
    [tag |-> "Record", typeName |-> typeName, fields |-> fields, ref |-> ref]

isNumTExp(te) == te.tag = "NumTExp"
isBoolTExp(te) == te.tag = "BoolTExp"
isStrTExp(te) == te.tag = "StrTExp"
isVoidTExp(te) == te.tag = "VoidTExp"
isAnyTExp(te) == te.tag = "AnyTExp"
isProcTExp(te) == te.tag = "ProcTExp"
isUserDefinedTExp(te) == te.tag = "UserDefinedTExp"
isUserDefinedNameTExp(te) == te.tag = "UserDefinedNameTExp"
isRecord(te) == te.tag = "Record"

\* The structure of a type expression: all that ramda's equals compares.
RECURSIVE Structure(_)
Structure(te) ==
    CASE te.tag = "Record" ->
            [tag |-> "Record", typeName |-> te.typeName,
             fields |-> [i \in 1..Len(te.fields) |->
                            makeField(te.fields[i].fieldName, Structure(te.fields[i].te))]]
      [] te.tag = "UserDefinedTExp" ->
            makeUserDefinedTExp(te.typeName,
                [i \in 1..Len(te.records) |-> Structure(te.records[i])])
      [] te.tag = "ProcTExp" ->
            makeProcTExp([i \in 1..Len(te.paramTEs) |-> Structure(te.paramTEs[i])],
                         Structure(te.returnTE))
      [] OTHER -> te

\* ramda equals: deep structural equality
equals(a, b) == Structure(a) = Structure(b)

\* === on objects, as Array.prototype.includes applies it to records
SameObject(a, b) == a.tag = "Record" /\ b.tag = "Record" /\ a.ref = b.ref

\* unparseTExp: the textual form of a type expression
RECURSIVE unparseTExp(_)
RECURSIVE unparseTuple(_)
unparseTuple(tes) ==
    IF tes = <<>> THEN "Empty"
    ELSE IF Len(tes) = 1 THEN unparseTExp(tes[1]).value
    ELSE unparseTExp(tes[1]).value \o " * " \o unparseTuple(Tail(tes))
unparseTExp(te) ==
    CASE te.tag = "NumTExp" -> makeOk("number")
      [] te.tag = "BoolTExp" -> makeOk("boolean")
      [] te.tag = "StrTExp" -> makeOk("string")
      [] te.tag = "VoidTExp" -> makeOk("void")
      [] te.tag = "AnyTExp" -> makeOk("any")
      [] te.tag = "LitTExp" -> makeOk("literal")
      [] te.tag = "TVar" -> makeOk(te.var)
      [] te.tag = "UserDefinedNameTExp" -> makeOk(te.typeName)
      [] te.tag = "UserDefinedTExp" -> makeOk(te.typeName)
      [] te.tag = "Record" -> makeOk(te.typeName)
      [] te.tag = "ProcTExp" ->
            makeOk("(" \o unparseTuple(te.paramTEs) \o " -> "
                       \o unparseTExp(te.returnTE).value \o ")")

(***************************************************************************)
(* L5-ast: the expressions                                                 *)
(***************************************************************************)
makeProgram(exps) == [tag |-> "Program", exps |-> exps]
makeDefineTypeExp(udType) ==
    [tag |-> "DefineTypeExp", typeName |-> udType.typeName, udType |-> udType]
makeVarDecl(v, texp) == [tag |-> "VarDecl", var |-> v, texp |-> texp]
makeDefineExp(vd, val) == [tag |-> "DefineExp", var |-> vd, val |-> val]
makeNumExp(n) == [tag |-> "NumExp", val |-> n]
makeBoolExp(b) == [tag |-> "BoolExp", val |-> b]
makeStrExp(s) == [tag |-> "StrExp", val |-> s]
makeLitExp(v) == [tag |-> "LitExp", val |-> v]
makeVarRef(v) == [tag |-> "VarRef", var |-> v]
makePrimOp(op) == [tag |-> "PrimOp", op |-> op]
makeIfExp(test, then, alt) == [tag |-> "IfExp", test |-> test, then |-> then, alt |-> alt]
makeAppExp(rator, rands) == [tag |-> "AppExp", rator |-> rator, rands |-> rands]
makeCaseExp(typeName, varDecls, body) ==
    [tag |-> "CaseExp", typeName |-> typeName, varDecls |-> varDecls, body |-> body]
makeTypeCaseExp(typeName, val, cases) ==
    [tag |-> "TypeCaseExp", typeName |-> typeName, val |-> val, cases |-> cases]

makeProcExp(args, body, returnTE) ==
    [tag |-> "ProcExp", args |-> args, body |-> body, returnTE |-> returnTE]
makeBinding(vd, val) == [tag |-> "Binding", var |-> vd, val |-> val]
makeLetExp(bindings, body) == [tag |-> "LetExp", bindings |-> bindings, body |-> body]
makeLetrecExp(bindings, body) == [tag |-> "LetrecExp", bindings |-> bindings, body |-> body]
makeSetExp(v, val) == [tag |-> "SetExp", var |-> v, val |-> val]

isDefineTypeExp(e) == e.tag = "DefineTypeExp"
isProcExp(e) == e.tag = "ProcExp"
isDefineExp(e) == e.tag = "DefineExp"

RECURSIVE join(_, _)
join(strs, sep) ==
    IF strs = <<>> THEN ""
    ELSE IF Len(strs) = 1 THEN strs[1]
    ELSE strs[1] \o sep \o join(Tail(strs), sep)

\* unparse: the concrete syntax of an expression
RECURSIVE unparse(_)
unparseVarDecl(vd) == "(" \o vd.var \o " : " \o unparseTExp(vd.texp).value \o ")"
unparseLExps(es) == join([i \in 1..Len(es) |-> unparse(es[i]).value], " ")
unparseBinding(b) == "(" \o unparseVarDecl(b.var) \o " " \o unparse(b.val).value \o ")"
unparseBindings(bs) == join([i \in 1..Len(bs) |-> unparseBinding(bs[i])], " ")
unparseCase(c) ==
    "(" \o c.typeName \o " (" \o join([i \in 1..Len(c.varDecls) |-> c.varDecls[i].var], " ")
        \o ") " \o unparseLExps(c.body) \o ")"
unparse(e) ==
    CASE e.tag = "NumExp" -> makeOk(ToString(e.val))
      [] e.tag = "BoolExp" -> makeOk(IF e.val THEN "#t" ELSE "#f")
      [] e.tag = "StrExp" -> makeOk("\"" \o e.val \o "\"")
      [] e.tag = "LitExp" -> makeOk("'" \o e.val)
      [] e.tag = "VarRef" -> makeOk(e.var)
      [] e.tag = "PrimOp" -> makeOk(e.op)
      [] e.tag = "IfExp" ->
            makeOk("(if " \o unparse(e.test).value \o " " \o unparse(e.then).value
                          \o " " \o unparse(e.alt).value \o ")")
      [] e.tag = "AppExp" ->
            makeOk("(" \o join(<<unparse(e.rator).value>>
                               \o [i \in 1..Len(e.rands) |-> unparse(e.rands[i]).value], " ")
                       \o ")")
      [] e.tag = "DefineExp" ->
            makeOk("(define " \o unparseVarDecl(e.var) \o " " \o unparse(e.val).value \o ")")
      [] e.tag = "DefineTypeExp" -> makeOk("(define-type " \o e.typeName \o ")")
      [] e.tag = "TypeCaseExp" ->
            makeOk("(type-case " \o e.typeName \o " " \o unparse(e.val).value \o " "
                   \o join([i \in 1..Len(e.cases) |-> unparseCase(e.cases[i])], " ") \o ")")
      [] e.tag = "Program" -> makeOk("(L51 " \o unparseLExps(e.exps) \o ")")
      [] e.tag = "ProcExp" ->
            makeOk("(lambda ("
                   \o join([i \in 1..Len(e.args) |-> unparseVarDecl(e.args[i])], " ")
                   \o ") : " \o unparseTExp(e.returnTE).value \o " "
                   \o unparseLExps(e.body) \o ")")
      [] e.tag = "LetExp" ->
            makeOk("(let (" \o unparseBindings(e.bindings) \o ") "
                   \o unparseLExps(e.body) \o ")")
      [] e.tag = "LetrecExp" ->
            makeOk("(letrec (" \o unparseBindings(e.bindings) \o ") "
                   \o unparseLExps(e.body) \o ")")
      [] e.tag = "SetExp" ->
            makeOk("(set! " \o e.var.var \o " " \o unparse(e.val).value \o ")")

(***************************************************************************)
(* Program introspection                                                   *)
(***************************************************************************)
RECURSIVE iterTypeDefinitions(_, _)
iterTypeDefinitions(head, tail) ==
    IF isEmpty(tail) /\ isDefineTypeExp(head) THEN <<head.udType>>
    ELSE IF isEmpty(tail) THEN <<>>
    ELSE IF isDefineTypeExp(head)
         THEN cons(head.udType, iterTypeDefinitions(first(tail), rest(tail)))
    ELSE iterTypeDefinitions(first(tail), rest(tail))

getTypeDefinitions(prog) ==
    IF isEmpty(prog.exps) THEN <<>>
    ELSE iterTypeDefinitions(first(prog.exps), rest(prog.exps))

RECURSIVE iterDefinitions(_, _)
iterDefinitions(head, tail) ==
    IF isEmpty(tail) /\ isDefineExp(head) THEN <<head>>
    ELSE IF isEmpty(tail) THEN <<>>
    ELSE IF isDefineExp(head)
         THEN cons(head, iterDefinitions(first(tail), rest(tail)))
    ELSE iterDefinitions(first(tail), rest(tail))

getDefinitions(prog) ==
    IF isEmpty(prog.exps) THEN <<>>
    ELSE iterDefinitions(first(prog.exps), rest(prog.exps))

getRecords(prog) ==
    flatten([i \in 1..Len(getTypeDefinitions(prog)) |-> getTypeDefinitions(prog)[i].records])

RECURSIVE getItemByName(_, _)
getItemByName(typeName, items) ==
    IF isEmpty(items) THEN makeFailure(Msg("not found", <<typeName>>))
    ELSE IF first(items).typeName = typeName THEN makeOk(first(items))
    ELSE getItemByName(typeName, rest(items))

getUserDefinedTypeByName(typeName, prog) ==
    getItemByName(typeName, getTypeDefinitions(prog))

getRecordByName(typeName, prog) ==
    getItemByName(typeName, getRecords(prog))

getRecordParents(typeName, prog) ==
    SelectSeq(getTypeDefinitions(prog),
              LAMBDA ud : \E i \in 1..Len(ud.records) : ud.records[i].typeName = typeName)

getTypeByName(typeName, prog) ==
    LET ud == getUserDefinedTypeByName(typeName, prog)
    IN  IF isFailure(ud) THEN getRecordByName(typeName, prog) ELSE ud

(***************************************************************************)
(* ramda: intersection and uniq over structural equality.  Releases differ *)
(* in which list intersection filters, and so in the order of the result.  *)
(***************************************************************************)
includesEq(l, x) == \E i \in 1..Len(l) : equals(l[i], x)

RECURSIVE uniq(_)
uniq(l) ==
    IF l = <<>> THEN <<>>
    ELSE LET init == uniq(SubSeq(l, 1, Len(l) - 1))
             x == l[Len(l)]
         IN  IF includesEq(init, x) THEN init ELSE Append(init, x)

intersection(list1, list2) ==
    LET swap == ramda = "filterShorter" /\ ~(Len(list1) > Len(list2))
        lookupList == IF swap THEN list2 ELSE list1
        filteredList == IF swap THEN list1 ELSE list2
    IN  uniq(SelectSeq(filteredList, LAMBDA x : includesEq(lookupList, x)))

RECURSIVE reduce(_, _, _)
reduce(f(_, _), acc, l) ==
    IF l = <<>> THEN acc ELSE reduce(f, f(acc, Head(l)), Tail(l))

(***************************************************************************)
(* Subtype and cover engine                                                *)
(***************************************************************************)
null == [tag |-> "null"]

\* isSubType without the test for any
isSubTypeNoAny(te1, te2, prog) ==
    LET te2TypeExp ==
            IF isUserDefinedTExp(te2) THEN te2
            ELSE IF isUserDefinedNameTExp(te2)
                 THEN LET ud == getUserDefinedTypeByName(te2.typeName, prog)
                      IN  IF isOk(ud) THEN ud.value ELSE null
            ELSE null
    IN  IF te2TypeExp = null THEN FALSE
        ELSE IF isRecord(te1)
             THEN \E i \in 1..Len(te2TypeExp.records) : SameObject(te2TypeExp.records[i], te1)
        ELSE IF isUserDefinedNameTExp(te1)
             THEN \E i \in 1..Len(te2TypeExp.records) :
                        te2TypeExp.records[i].typeName = te1.typeName
        ELSE FALSE

isSubType(te1, te2, prog) ==
    IF isAnyTExp(te2) THEN TRUE
    ELSE LET te2TypeExp ==
                IF isUserDefinedTExp(te2) THEN te2
                ELSE IF isUserDefinedNameTExp(te2)
                     THEN LET ud == getUserDefinedTypeByName(te2.typeName, prog)
                          IN  IF isOk(ud) THEN ud.value ELSE null
                ELSE null
         IN  IF te2TypeExp = null THEN FALSE
             ELSE IF isRecord(te1)
                  THEN \E i \in 1..Len(te2TypeExp.records) :
                            SameObject(te2TypeExp.records[i], te1)
             ELSE IF isUserDefinedNameTExp(te1)
                  THEN \E i \in 1..Len(te2TypeExp.records) :
                            te2TypeExp.records[i].typeName = te1.typeName
             ELSE FALSE

\* checkEqualType without the structural equality it tries first
checkEqualTypeSubTypeOnly(te1, te2, exp, prog) ==
    IF isSubType(te1, te2, prog) THEN makeOk(te2)
    ELSE makeFailure(Msg("Incompatible types",
            <<unparseTExp(te1).value, unparseTExp(te2).value, unparse(exp).value>>))

checkDeepEqualType(te1, te2, prog) ==
    /\ isUserDefinedNameTExp(te1)
    /\ (isUserDefinedTExp(te2) \/ isRecord(te2))
    /\ LET t == getTypeByName(te1.typeName, prog)
       IN  isOk(t) /\ equals(t.value, te2)

checkEqualType(te1, te2, exp, prog) ==
    IF equals(te1, te2) THEN makeOk(te2)
    ELSE IF checkDeepEqualType(te1, te2, prog) THEN makeOk(te2)
    ELSE IF checkDeepEqualType(te2, te1, prog) THEN makeOk(te2)
    ELSE IF isSubType(te1, te2, prog) THEN makeOk(te2)
    ELSE makeFailure(Msg("Incompatible types",
            <<unparseTExp(te1).value, unparseTExp(te2).value, unparse(exp).value>>))

RECURSIVE getParentsType(_, _)
getParentsType(te, prog) ==
    IF isNumTExp(te) \/ isBoolTExp(te) \/ isStrTExp(te) \/ isVoidTExp(te) \/ isAnyTExp(te)
    THEN <<te>>
    ELSE IF isProcTExp(te) THEN <<te>>
    ELSE IF isUserDefinedTExp(te) THEN <<te>>
    ELSE IF isRecord(te) THEN getParentsType(makeUserDefinedNameTExp(te.typeName), prog)
    ELSE IF isUserDefinedNameTExp(te)
         THEN LET ud == getUserDefinedTypeByName(te.typeName, prog)
                  rec == getRecordByName(te.typeName, prog)
              IN  IF isOk(ud) THEN <<makeUserDefinedNameTExp(ud.value.typeName)>>
                  ELSE IF isOk(rec)
                       THEN cons(makeUserDefinedNameTExp(rec.value.typeName),
                                 LET parents == getRecordParents(rec.value.typeName, prog)
                                 IN  [i \in 1..Len(parents) |->
                                        makeUserDefinedNameTExp(parents[i].typeName)])
                  ELSE <<>>
    ELSE <<>>

\* coverTypes that keeps the parents of the first type only
coverTypesOfFirst(types, prog) == getParentsType(first(types), prog)

coverTypes(types, prog) ==
    LET parentsList == [i \in 1..Len(types) |-> getParentsType(types[i], prog)]
    IN  reduce(intersection, first(parentsList), rest(parentsList))

mostSpecificType(types, prog) ==
    reduce(LAMBDA min, element : IF isSubType(element, min, prog) THEN element ELSE min,
           makeAnyTExp, types)

\* JSON.stringify(r, null, 2) of a Result<string>
JSONstringify(r) ==
    IF r.tag = "Ok"
    THEN "{\n  \"tag\": \"Ok\",\n  \"value\": \"" \o r.value \o "\"\n}"
    ELSE "{\n  \"tag\": \"Failure\",\n  \"message\": \"" \o r.message.text \o "\"\n}"

checkCoverType(types, prog) ==
    LET cover == coverTypes(types, prog)
    IN  IF isEmpty(cover)
        THEN makeFailure(Msg("No type found to cover",
                [i \in 1..Len(types) |-> JSONstringify(unparseTExp(types[i]))]))
        ELSE makeOk(mostSpecificType(cover, prog))

(***************************************************************************)
(* TEnv: the type environment, a chain of frames                           *)
(***************************************************************************)
makeEmptyTEnv == [tag |-> "EmptyTEnv"]
makeExtendTEnv(vs, texps, tenv) ==
    [tag |-> "ExtendTEnv", vars |-> vs, texps |-> texps, tenv |-> tenv]

RECURSIVE applyTEnv(_, _)
RECURSIVE applyExtendTEnv(_, _, _, _)
applyExtendTEnv(texps, tenv, vs, v) ==
    IF isEmpty(vs) THEN applyTEnv(tenv, v)
    ELSE IF first(vs) = v THEN makeOk(first(texps))
    ELSE applyExtendTEnv(rest(texps), tenv, rest(vs), v)
applyTEnv(tenv, v) ==
    IF tenv.tag = "EmptyTEnv" THEN makeFailure(Msg("Type Variable not found", <<v>>))
    ELSE applyExtendTEnv(tenv.texps, tenv.tenv, tenv.vars, v)

(***************************************************************************)
(* The initial type environment                                            *)
(***************************************************************************)
anyToBool == makeProcTExp(<<makeAnyTExp>>, makeBoolTExp)

extendDefineEnv(prog, env) ==
    LET defs == getDefinitions(prog)
        defineNames == [i \in 1..Len(defs) |-> defs[i].var.var]
        defineTypes == [i \in 1..Len(defs) |-> defs[i].var.texp]
    IN  makeExtendTEnv(defineNames, defineTypes, env)

extendDefineTypesEnv(prog, env) ==
    LET defineTypes == getTypeDefinitions(prog)
        defineTypeNames == [i \in 1..Len(defineTypes) |-> defineTypes[i].typeName]
        typePredName == [i \in 1..Len(defineTypeNames) |-> defineTypeNames[i] \o "?"]
        typePred == [i \in 1..Len(typePredName) |-> anyToBool]
    IN  makeExtendTEnv(defineTypeNames \o typePredName, defineTypes \o typePred, env)

\* extendRecordsEnv with the constructor's parameters in reverse field order
extendRecordsEnvReversed(prog, env) ==
    LET recordTypes == getRecords(prog)
        recordNames == [i \in 1..Len(recordTypes) |-> recordTypes[i].typeName]
        typePredName == [i \in 1..Len(recordNames) |-> recordNames[i] \o "?"]
        typePred == [i \in 1..Len(typePredName) |-> anyToBool]
        makeNames == [i \in 1..Len(recordNames) |-> "make-" \o recordNames[i]]
        makeTypes == [i \in 1..Len(recordTypes) |->
                        makeProcTExp([j \in 1..Len(recordTypes[i].fields) |->
                                        recordTypes[i].fields[
                                            Len(recordTypes[i].fields) + 1 - j].te],
                                     recordTypes[i])]
    IN  makeExtendTEnv((recordNames \o typePredName) \o makeNames,
                       (recordTypes \o typePred) \o makeTypes,
                       env)

extendRecordsEnv(prog, env) ==
    LET recordTypes == getRecords(prog)
        recordNames == [i \in 1..Len(recordTypes) |-> recordTypes[i].typeName]
        typePredName == [i \in 1..Len(recordNames) |-> recordNames[i] \o "?"]
        typePred == [i \in 1..Len(typePredName) |-> anyToBool]
        makeNames == [i \in 1..Len(recordNames) |-> "make-" \o recordNames[i]]
        makeTypes == [i \in 1..Len(recordTypes) |->
                        makeProcTExp([j \in 1..Len(recordTypes[i].fields) |->
                                        recordTypes[i].fields[j].te],
                                     recordTypes[i])]
    IN  makeExtendTEnv((recordNames \o typePredName) \o makeNames,
                       (recordTypes \o typePred) \o makeTypes,
                       env)

initTEnv(prog) ==
    extendRecordsEnv(prog, extendDefineTypesEnv(prog, extendDefineEnv(prog, makeEmptyTEnv)))

(***************************************************************************)
(* Well-formedness of the user-defined types                               *)
(***************************************************************************)
\* equivalentTEs: structural equivalence (no type variables occur in fields)
equivalentTEs(te1, te2) == equals(te1, te2)

compareFields(f1, f2) ==
    f1.fieldName = f2.fieldName /\ f1.te.tag = f2.te.tag /\ equivalentTEs(f1.te, f2.te)

every(l, P(_)) == \A i \in 1..Len(l) : P(l[i])
some(l, P(_)) == \E i \in 1..Len(l) : P(l[i])

compareRecords(prog) ==
    LET record == getRecords(prog)
    IN  every(record, LAMBDA r :
            every(SelectSeq(record, LAMBDA r1 : r1.typeName = r.typeName), LAMBDA r2 :
                /\ Len(r.fields) = Len(r2.fields)
                /\ every(r2.fields, LAMBDA f2 : some(r.fields, LAMBDA f : compareFields(f, f2)))
                /\ every(r.fields, LAMBDA f : some(r2.fields, LAMBDA f2 : compareFields(f, f2)))))

isLegalRecord(prog) ==
    every(SelectSeq(getTypeDefinitions(prog), LAMBDA def :
                some(def.records, LAMBDA r :
                    some(r.fields, LAMBDA f :
                        IF isUserDefinedTExp(f.te) THEN f.te.typeName = def.typeName
                        ELSE FALSE))),
          LAMBDA def :
                some(def.records, LAMBDA r :
                    every(r.fields, LAMBDA f :
                        IF isUserDefinedTExp(f.te) THEN f.te.typeName # def.typeName
                        ELSE FALSE)))

checkUserDefinedTypes(prog) ==
    IF compareRecords(prog) /\ isLegalRecord(prog) THEN makeOk(true)
    ELSE makeFailure(Msg("Invalid UDT", <<>>))

(***************************************************************************)
(* The type-case validator.  Array.prototype.sort orders tc.cases in       *)
(* place: the clauses of the expression object are sorted once the cover   *)
(* and the type lookup have succeeded.                                     *)
(***************************************************************************)
\* The collation order of the names that occur in the programs of the model
Collation == <<"R1", "R2", "R3", "U1", "U2">>
rank(name) == CHOOSE i \in 1..Len(Collation) : Collation[i] = name
localeCompare(a, b) == rank(a) - rank(b)

\* Array.prototype.sort by typeName: stable
RECURSIVE insertByName(_, _)
insertByName(x, sorted) ==
    IF sorted = <<>> THEN <<x>>
    ELSE IF localeCompare(x.typeName, Head(sorted).typeName) < 0 THEN cons(x, sorted)
    ELSE cons(Head(sorted), insertByName(x, Tail(sorted)))

RECURSIVE sortByName(_)
sortByName(l) ==
    IF l = <<>> THEN <<>>
    ELSE insertByName(l[Len(l)], sortByName(SubSeq(l, 1, Len(l) - 1)))

typeCaseCover(tc, prog) ==
    checkCoverType(cons(makeUserDefinedNameTExp(tc.typeName),
                        [i \in 1..Len(tc.cases) |-> makeUserDefinedNameTExp(tc.cases[i].typeName)]),
                   prog)

\* the typeName that (udt as UserDefinedNameTExp).typeName reads
typeNameOf(udt) ==
    IF udt.tag \in {"UserDefinedNameTExp", "UserDefinedTExp", "Record"}
    THEN udt.typeName ELSE "undefined"

\* the user-defined type checkTypeCase aligns the clauses with, if it gets there
typeCaseType(tc, prog) ==
    bind(typeCaseCover(tc, prog),
         LAMBDA udt : getUserDefinedTypeByName(typeNameOf(udt), prog))

\* checkTypeCase that aligns the clauses in source order with the sorted records
checkTypeCaseUnsorted(tc, prog) ==
    bind(typeCaseType(tc, prog), LAMBDA udt :
        LET typeCases == tc.cases
            records == sortByName(udt.records)
        IN  IF /\ Len(records) = Len(typeCases)
               /\ \A idx \in 1..Len(records) :
                     /\ records[idx].typeName = typeCases[idx].typeName
                     /\ Len(records[idx].fields) = Len(typeCases[idx].varDecls)
            THEN makeOk(true)
            ELSE makeFailure(Msg("Invalid type-case", <<>>)))

checkTypeCase(tc, prog) ==
    bind(typeCaseType(tc, prog), LAMBDA udt :
        LET typeCases == sortByName(tc.cases)
            records == sortByName(udt.records)
        IN  IF /\ Len(records) = Len(typeCases)
               /\ \A idx \in 1..Len(records) :
                     /\ records[idx].typeName = typeCases[idx].typeName
                     /\ Len(records[idx].fields) = Len(typeCases[idx].varDecls)
            THEN makeOk(true)
            ELSE makeFailure(Msg("Invalid type-case", <<>>)))

\* tc as checkTypeCase leaves it
afterCheckTypeCase(tc, prog) ==
    IF isOk(typeCaseType(tc, prog)) THEN [tc EXCEPT !.cases = sortByName(tc.cases)] ELSE tc

(***************************************************************************)
(* The expression typer                                                    *)
(***************************************************************************)
numOpTExp == makeOk(makeProcTExp(<<makeNumTExp, makeNumTExp>>, makeNumTExp))
numCompTExp == makeOk(makeProcTExp(<<makeNumTExp, makeNumTExp>>, makeBoolTExp))
boolOpTExp == makeOk(makeProcTExp(<<makeBoolTExp, makeBoolTExp>>, makeBoolTExp))

typeofPrim(op) ==
    CASE op \in {"+", "-", "*", "/"} -> numOpTExp
      [] op \in {"and", "or"} -> boolOpTExp
      [] op \in {">", "<", "="} -> numCompTExp
      [] op \in {"number?", "boolean?", "string?", "list?", "pair?", "symbol?"} ->
            makeOk(makeProcTExp(<<makeTVar("T")>>, makeBoolTExp))
      [] op = "not" -> makeOk(makeProcTExp(<<makeBoolTExp>>, makeBoolTExp))
      [] op \in {"eq?", "string=?"} ->
            makeOk(makeProcTExp(<<makeTVar("T1"), makeTVar("T2")>>, makeBoolTExp))
      [] op = "display" -> makeOk(makeProcTExp(<<makeTVar("T")>>, makeVoidTExp))
      [] op = "newline" -> makeOk(makeProcTExp(<<>>, makeVoidTExp))
      [] OTHER -> makeFailure(Msg("Primitive not yet implemented", <<op>>))

typeofLit(e) == makeOk(makeLitTExp)

typeofDefineType(e, prog) ==
    bind(checkUserDefinedTypes(prog), LAMBDA c : makeOk(makeVoidTExp))

RECURSIVE typeofExp(_, _, _)
RECURSIVE typeofExps(_, _, _)
RECURSIVE typeofRands(_, _, _, _, _)
RECURSIVE typeofCases(_, _, _)
RECURSIVE typeofBindings(_, _, _, _, _)
RECURSIVE typeofBodies(_, _, _)
RECURSIVE checkReturnTEs(_, _, _, _)

\* typeofIf with the rule of L5: the branches must have equal types
typeofIfEqualBranches(ifExp, tenv, prog) ==
    bind(bind(typeofExp(ifExp.test, tenv, prog),
              LAMBDA testTE : checkEqualType(testTE, makeBoolTExp, ifExp, prog)),
         LAMBDA c1 :
            bind(typeofExp(ifExp.then, tenv, prog), LAMBDA thenTE :
                bind(typeofExp(ifExp.alt, tenv, prog), LAMBDA altTE :
                    checkEqualType(thenTE, altTE, ifExp, prog))))

typeofIf(ifExp, tenv, prog) ==
    bind(bind(typeofExp(ifExp.test, tenv, prog),
              LAMBDA testTE : checkEqualType(testTE, makeBoolTExp, ifExp, prog)),
         LAMBDA c1 :
            bind(typeofExp(ifExp.then, tenv, prog), LAMBDA thenTE :
                bind(typeofExp(ifExp.alt, tenv, prog), LAMBDA altTE :
                    checkCoverType(<<thenTE, altTE>>, prog))))

\* zipWithResult over the operands and the parameter types: the first failure, left to right
typeofRands(rands, paramTEs, app, tenv, prog) ==
    IF isEmpty(rands) \/ isEmpty(paramTEs) THEN makeOk(<<>>)
    ELSE bind(bind(typeofExp(first(rands), tenv, prog),
                   LAMBDA typeOfRand :
                        checkEqualType(typeOfRand, first(paramTEs), app, prog)),
              LAMBDA fxy :
                bind(typeofRands(rest(rands), rest(paramTEs), app, tenv, prog),
                     LAMBDA fxys : makeOk(cons(fxy, fxys))))

typeofApp(app, tenv, prog) ==
    bind(typeofExp(app.rator, tenv, prog), LAMBDA ratorTE :
        IF ~isProcTExp(ratorTE)
        THEN makeFailure(Msg("Application of non-procedure",
                    <<unparseTExp(ratorTE).value, unparse(app).value>>))
        ELSE IF Len(app.rands) # Len(ratorTE.paramTEs)
        THEN makeFailure(Msg("Wrong parameter numbers passed to proc",
                    <<unparse(app).value>>))
        ELSE mapv(typeofRands(app.rands, ratorTE.paramTEs, app, tenv, prog),
                  LAMBDA constraints : ratorTE.returnTE))

typeofDefine(e, tenv, prog) ==
    mapv(typeofExp(e.val, makeExtendTEnv(<<e.var.var>>, <<e.var.texp>>, tenv), prog),
         LAMBDA constraint : makeVoidTExp)

typeofProgram(e, tenv, prog) == typeofExps(e.exps, tenv, prog)

\* the checks of typeofTypeCase before checkTypeCase
typeCaseValue(e, tenv, prog) ==
    bind(getTypeByName(e.typeName, prog), LAMBDA userDefinedTE :
        bind(typeofExp(e.val, tenv, prog), LAMBDA valTE :
            checkEqualType(valTE, userDefinedTE, e, prog)))

\* the checks of typeofTypeCase up to and including checkTypeCase
typeCaseConstraints(e, tenv, prog) ==
    bind(typeCaseValue(e, tenv, prog), LAMBDA c : checkTypeCase(e, prog))

\* mapResult over the clauses: the types of the bodies, or the first failure
typeofCases(cases, tenv, prog) ==
    IF isEmpty(cases) THEN makeOk(<<>>)
    ELSE bind(bind(getRecordByName(first(cases).typeName, prog), LAMBDA rec :
                    typeofExps(first(cases).body,
                        makeExtendTEnv(
                            [i \in 1..Len(first(cases).varDecls) |->
                                first(cases).varDecls[i].var],
                            [i \in 1..Len(rec.fields) |-> rec.fields[i].te],
                            tenv),
                        prog)),
              LAMBDA t :
                bind(typeofCases(rest(cases), tenv, prog),
                     LAMBDA ts : makeOk(cons(t, ts))))

\* exp.cases is read after checkTypeCase has sorted it
typeofTypeCase(e, tenv, prog) ==
    bind(typeCaseConstraints(e, tenv, prog), LAMBDA constraints :
        bind(typeofCases(sortByName(e.cases), tenv, prog), LAMBDA casesTypes :
            checkCoverType(casesTypes, prog)))

\* the type-case as typeofTypeCase leaves it
afterTypeofTypeCase(e, tenv, prog) ==
    IF isOk(typeCaseValue(e, tenv, prog)) THEN afterCheckTypeCase(e, prog) ELSE e

typeofProc(proc, tenv, prog) ==
    LET argsTEs == [i \in 1..Len(proc.args) |-> proc.args[i].texp]
        extTEnv == makeExtendTEnv([i \in 1..Len(proc.args) |-> proc.args[i].var],
                                  argsTEs, tenv)
    IN  bind(bind(typeofExps(proc.body, extTEnv, prog),
                  LAMBDA body : checkEqualType(body, proc.returnTE, proc, prog)),
             LAMBDA returnTE : makeOk(makeProcTExp(argsTEs, returnTE)))

\* zipWithResult over the declared types and the initializers of a let
typeofBindings(varTEs, vals, exp, tenv, prog) ==
    IF isEmpty(varTEs) \/ isEmpty(vals) THEN makeOk(<<>>)
    ELSE bind(bind(typeofExp(first(vals), tenv, prog),
                   LAMBDA typeOfVal :
                        checkEqualType(first(varTEs), typeOfVal, exp, prog)),
              LAMBDA fxy :
                bind(typeofBindings(rest(varTEs), rest(vals), exp, tenv, prog),
                     LAMBDA fxys : makeOk(cons(fxy, fxys))))

typeofLet(exp, tenv, prog) ==
    LET vars_ == [i \in 1..Len(exp.bindings) |-> exp.bindings[i].var.var]
        vals == [i \in 1..Len(exp.bindings) |-> exp.bindings[i].val]
        varTEs == [i \in 1..Len(exp.bindings) |-> exp.bindings[i].var.texp]
    IN  bind(typeofBindings(varTEs, vals, exp, tenv, prog),
             LAMBDA constraints :
                typeofExps(exp.body, makeExtendTEnv(vars_, varTEs, tenv), prog))

\* zipWithResult over the procedure bodies and their environments
typeofBodies(bodies, tenvIs, prog) ==
    IF isEmpty(bodies) \/ isEmpty(tenvIs) THEN makeOk(<<>>)
    ELSE bind(typeofExps(first(bodies), first(tenvIs), prog),
              LAMBDA fxy :
                bind(typeofBodies(rest(bodies), rest(tenvIs), prog),
                     LAMBDA fxys : makeOk(cons(fxy, fxys))))

\* zipWithResult over the types of the bodies and the declared return types
checkReturnTEs(types, tis, exp, prog) ==
    IF isEmpty(types) \/ isEmpty(tis) THEN makeOk(<<>>)
    ELSE bind(checkEqualType(first(types), first(tis), exp, prog),
              LAMBDA fxy :
                bind(checkReturnTEs(rest(types), rest(tis), exp, prog),
                     LAMBDA fxys : makeOk(cons(fxy, fxys))))

\* the frame of a letrec: each bound name with the type its lambda declares
letrecTEnvBody(exp, tenv) ==
    makeExtendTEnv([i \in 1..Len(exp.bindings) |-> exp.bindings[i].var.var],
                   [i \in 1..Len(exp.bindings) |->
                        makeProcTExp([j \in 1..Len(exp.bindings[i].val.args) |->
                                        exp.bindings[i].val.args[j].texp],
                                     exp.bindings[i].val.returnTE)],
                   tenv)

\* typeofLetrec that types the procedure bodies without the frame of the bound names
typeofLetrecBodiesOutside(exp, tenv, prog) ==
    IF ~(\A i \in 1..Len(exp.bindings) : isProcExp(exp.bindings[i].val))
    THEN makeFailure(Msg("letrec - only support binding of procedures", <<>>))
    ELSE LET procs == [i \in 1..Len(exp.bindings) |-> exp.bindings[i].val]
             bodies == [i \in 1..Len(procs) |-> procs[i].body]
             tis == [i \in 1..Len(procs) |-> procs[i].returnTE]
             tenvIs == [i \in 1..Len(procs) |->
                            makeExtendTEnv(
                                [j \in 1..Len(procs[i].args) |-> procs[i].args[j].var],
                                [j \in 1..Len(procs[i].args) |-> procs[i].args[j].texp],
                                tenv)]
         IN  bind(bind(typeofBodies(bodies, tenvIs, prog),
                       LAMBDA types : checkReturnTEs(types, tis, exp, prog)),
                  LAMBDA constraints :
                        typeofExps(exp.body, letrecTEnvBody(exp, tenv), prog))

typeofLetrec(exp, tenv, prog) ==
    IF ~(\A i \in 1..Len(exp.bindings) : isProcExp(exp.bindings[i].val))
    THEN makeFailure(Msg("letrec - only support binding of procedures", <<>>))
    ELSE LET procs == [i \in 1..Len(exp.bindings) |-> exp.bindings[i].val]
             bodies == [i \in 1..Len(procs) |-> procs[i].body]
             tis == [i \in 1..Len(procs) |-> procs[i].returnTE]
             tenvIs == [i \in 1..Len(procs) |->
                            makeExtendTEnv(
                                [j \in 1..Len(procs[i].args) |-> procs[i].args[j].var],
                                [j \in 1..Len(procs[i].args) |-> procs[i].args[j].texp],
                                letrecTEnvBody(exp, tenv))]
         IN  bind(bind(typeofBodies(bodies, tenvIs, prog),
                       LAMBDA types : checkReturnTEs(types, tis, exp, prog)),
                  LAMBDA constraints :
                        typeofExps(exp.body, letrecTEnvBody(exp, tenv), prog))

typeofSet(exp, tenv, prog) ==
    mapv(bind(typeofExp(exp.var, tenv, prog), LAMBDA typeOfVar :
            bind(typeofExp(exp.val, tenv, prog), LAMBDA typeOfVal :
                checkEqualType(typeOfVar, typeOfVal, exp, prog))),
         LAMBDA constraints : makeVoidTExp)

typeofExp(e, tenv, prog) ==
    CASE e.tag = "NumExp" -> makeOk(makeNumTExp)
      [] e.tag = "BoolExp" -> makeOk(makeBoolTExp)
      [] e.tag = "StrExp" -> makeOk(makeStrTExp)
      [] e.tag = "PrimOp" -> typeofPrim(e.op)
      [] e.tag = "VarRef" -> applyTEnv(tenv, e.var)
      [] e.tag = "IfExp" -> typeofIf(e, tenv, prog)
      [] e.tag = "ProcExp" -> typeofProc(e, tenv, prog)
      [] e.tag = "AppExp" -> typeofApp(e, tenv, prog)
      [] e.tag = "LetExp" -> typeofLet(e, tenv, prog)
      [] e.tag = "LetrecExp" -> typeofLetrec(e, tenv, prog)
      [] e.tag = "DefineExp" -> typeofDefine(e, tenv, prog)
      [] e.tag = "Program" -> typeofProgram(e, tenv, prog)
      [] e.tag = "SetExp" -> typeofSet(e, tenv, prog)
      [] e.tag = "LitExp" -> typeofLit(e)
      [] e.tag = "DefineTypeExp" -> typeofDefineType(e, prog)
      [] e.tag = "TypeCaseExp" -> typeofTypeCase(e, tenv, prog)
      [] OTHER -> makeFailure(Msg("Unknown type", <<>>))

typeofExps(exps, tenv, prog) ==
    IF isEmpty(rest(exps)) THEN typeofExp(first(exps), tenv, prog)
    ELSE bind(typeofExp(first(exps), tenv, prog),
              LAMBDA t : typeofExps(rest(exps), tenv, prog))

(***************************************************************************)
(* The programs and inputs the entry points are applied to                 *)
(***************************************************************************)
TypeNames == <<"U1", "U2">>
RecordNames == <<"R1", "R2", "R3">>

\* The field list each record name is declared with.
FieldsOf(recName) ==
    CASE recName = "R1" -> <<makeField("a", makeNumTExp)>>
      [] recName = "R2" -> <<>>
      [] recName = "R3" -> <<makeField("a", makeNumTExp), makeField("b", makeBoolTExp)>>

\* The sequences of at most n elements of S
RECURSIVE SeqsUpTo(_, _)
SeqsUpTo(S, n) ==
    IF n = 0 THEN {<<>>}
    ELSE LET shorter == SeqsUpTo(S, n - 1)
         IN  shorter \cup {Append(s, x) : s \in {t \in shorter : Len(t) = n - 1}, x \in S}

NoRepeat(s) == \A i, j \in 1..Len(s) : i # j => s[i] # s[j]

RecordLists == {s \in SeqsUpTo(Range(RecordNames), MaxRecords) : s # <<>> /\ NoRepeat(s)}

\* (define-type name (rec ...) ...), the k-th expression of its program
DefineType(k, recNames) ==
    makeDefineTypeExp(makeUserDefinedTExp(TypeNames[k],
        [j \in 1..Len(recNames) |-> makeRecord(recNames[j], FieldsOf(recNames[j]), <<k, j>>)]))

\* The programs: no type, one type with its records in any order, or two types,
\* the records of the second in name order
Ascending(s) == \A i \in 1..(Len(s) - 1) : localeCompare(s[i], s[i + 1]) < 0
Programs ==
    {makeProgram(<<>>)}
    \cup {makeProgram(<<DefineType(1, r1)>>) : r1 \in RecordLists}
    \cup {makeProgram(<<DefineType(1, r1), DefineType(2, r2)>>) :
            r1 \in RecordLists, r2 \in {r \in RecordLists : Ascending(r)}}

PrimitiveTExps ==
    {makeNumTExp, makeBoolTExp, makeStrTExp, makeVoidTExp, makeAnyTExp, makeLitTExp}
ProcTExps == {anyToBool}
NameTExps ==
    {makeUserDefinedNameTExp(n) : n \in Range(TypeNames) \cup Range(RecordNames)}

\* The type expressions a check of prog can meet
TExps(prog) ==
    PrimitiveTExps \cup ProcTExps \cup NameTExps
    \cup Range(getTypeDefinitions(prog)) \cup Range(getRecords(prog))

\* Top-level defines, and the programs that hold them before or after the types
DefineLists ==
    {<<>>,
     <<makeDefineExp(makeVarDecl("x", makeNumTExp), makeNumExp(1))>>,
     <<makeDefineExp(makeVarDecl("x", makeNumTExp), makeNumExp(1)),
       makeDefineExp(makeVarDecl("f", makeProcTExp(<<makeNumTExp>>, makeNumTExp)),
                     makePrimOp("-"))>>,
     <<makeDefineExp(makeVarDecl("R1", makeStrTExp), makeStrExp("a"))>>}

\* The generated type definitions the well-formedness check is applied to:
\* a field is a number, a reference to the enclosing type U1 (as a type value
\* or by name), or a reference to another type
FieldTEs ==
    {makeNumTExp, makeUserDefinedTExp("U1", <<>>), makeUserDefinedNameTExp("U1"),
     makeUserDefinedTExp("U2", <<>>)}
FieldLists ==
    {[i \in 1..Len(tes) |-> makeField("f" \o ToString(i), tes[i])] :
        tes \in SeqsUpTo(FieldTEs, MaxFields)}
UDTPrograms ==
    {makeProgram(<<makeDefineTypeExp(makeUserDefinedTExp("U1",
                        <<makeRecord("R1", fl1, <<1, 1>>)>>))>>) :
        fl1 \in FieldLists}
    \cup
    {makeProgram(<<makeDefineTypeExp(makeUserDefinedTExp("U1",
                        <<makeRecord("R1", fl1, <<1, 1>>),
                          makeRecord("R2", fl2, <<1, 2>>)>>))>>) :
        fl1 \in FieldLists, fl2 \in FieldLists}
    \cup
    {makeProgram(<<makeDefineTypeExp(makeUserDefinedTExp("U1",
                        <<makeRecord("R1", fl1, <<1, 1>>)>>)),
                   makeDefineTypeExp(makeUserDefinedTExp("U2",
                        <<makeRecord("R1", fl2, <<2, 1>>)>>))>>) :
        fl1 \in FieldLists, fl2 \in FieldLists}

\* The environment of a procedure body inside prog, whose parameters are
\* declared (r1 : R1) (r2 : R2) (u1 : U1) (v : any)
scopeTEnv(prog) ==
    makeExtendTEnv(<<"r1", "r2", "u1", "v">>,
                   <<makeUserDefinedNameTExp("R1"), makeUserDefinedNameTExp("R2"),
                     makeUserDefinedNameTExp("U1"), makeAnyTExp>>,
                   initTEnv(prog))

Tests ==
    {makeBoolExp(TRUE), makeNumExp(1), makeVarRef("v"),
     makeAppExp(makePrimOp(">"), <<makeNumExp(1), makeNumExp(2)>>)}
Branches ==
    {makeNumExp(3), makeStrExp("a"), makeLitExp("a"),
     makeVarRef("r1"), makeVarRef("r2"), makeVarRef("u1"), makeVarRef("v"),
     makeAppExp(makeVarRef("make-R1"), <<makeNumExp(1)>>)}
IfExps == {makeIfExp(t, a, b) : t \in Tests, a \in Branches, b \in Branches}

DefineExps ==
    {makeDefineExp(makeVarDecl("x", t), v) :
        t \in {makeNumTExp, makeStrTExp, makeUserDefinedNameTExp("U1")},
        v \in {makeNumExp(1), makeStrExp("a"), makeVarRef("r1"), makeVarRef("u1"),
               makeVarRef("x"), makeVarRef("undefined")}}

VarDeclLists ==
    {<<>>, <<makeVarDecl("x1", makeAnyTExp)>>,
     <<makeVarDecl("x1", makeAnyTExp), makeVarDecl("x2", makeAnyTExp)>>}
CaseExps ==
    {makeCaseExp(n, vds, <<makeNumExp(1)>>) : n \in Range(RecordNames), vds \in VarDeclLists}
RecordNamesIn(ud) == [j \in 1..Len(ud.records) |-> ud.records[j].typeName]
TypeCaseExps ==
    {makeTypeCaseExp("U1", makeVarRef("u1"), cs) : cs \in SeqsUpTo(CaseExps, MaxCases)}
\* The programs a type-case is checked in: no type, one type, or two types the
\* second of the single record R1
TypeCasePrograms ==
    {prog \in Programs :
        Len(prog.exps) = 2 => RecordNamesIn(prog.exps[2].udType) = <<"R1">>}

\* The letrec expressions: f, or f and g, bound to lambdas of one number
\* parameter x (or to a number), the bodies calling f or g
CallOf(name, arg) == makeAppExp(makeVarRef(name), <<arg>>)
Lambda(body, returnTE) ==
    makeProcExp(<<makeVarDecl("x", makeNumTExp)>>, <<body>>, returnTE)
LetrecValuesF ==
    {Lambda(b, t) :
        b \in {makeVarRef("x"), CallOf("g", makeVarRef("x")), CallOf("f", makeVarRef("x")),
               makeStrExp("a"), makeVarRef("g"), makeVarRef("r1")},
        t \in {makeNumTExp, makeStrTExp, makeUserDefinedNameTExp("U1")}}
    \cup {makeNumExp(1)}
LetrecValuesG ==
    {Lambda(b, makeNumTExp) : b \in {makeVarRef("x"), CallOf("f", makeVarRef("x"))}}
    \cup {makeNumExp(1)}
LetrecBindings ==
    {<<makeBinding(makeVarDecl("f", makeTVar("T1")), vf)>> : vf \in LetrecValuesF}
    \cup {<<makeBinding(makeVarDecl("f", makeTVar("T1")), vf),
            makeBinding(makeVarDecl("g", makeTVar("T2")), vg)>> :
                vf \in LetrecValuesF, vg \in LetrecValuesG}
LetrecExps ==
    {makeLetrecExp(bs, <<body>>) :
        bs \in LetrecBindings,
        body \in {CallOf("f", makeNumExp(1)), makeVarRef("g"), makeNumExp(1)}}

\* The programs that declare record R3 in U1 and, before or after it, in U2,
\* each with the fields of R3 in either order
FieldOrders == {FieldsOf("R3"), <<FieldsOf("R3")[2], FieldsOf("R3")[1]>>}
DefineTypeOfR3(k, withR1, fields) ==
    makeDefineTypeExp(makeUserDefinedTExp(TypeNames[k],
        IF withR1
        THEN <<makeRecord("R1", FieldsOf("R1"), <<k, 1>>), makeRecord("R3", fields, <<k, 2>>)>>
        ELSE <<makeRecord("R3", fields, <<k, 1>>)>>))
ReorderedPrograms ==
    {makeProgram(<<DefineTypeOfR3(1, w, f1)>>) : w \in BOOLEAN, f1 \in FieldOrders}
    \cup {makeProgram(<<DefineTypeOfR3(1, w, f1), DefineTypeOfR3(2, FALSE, f2)>>) :
            w \in BOOLEAN, f1 \in FieldOrders, f2 \in FieldOrders}
    \cup {makeProgram(<<DefineTypeOfR3(2, FALSE, f2), DefineTypeOfR3(1, w, f1)>>) :
            w \in BOOLEAN, f1 \in FieldOrders, f2 \in FieldOrders}
\* The type-cases over U1 whose clause for R3 returns one of its two variables
FieldCaseExps ==
    {makeTypeCaseExp("U1", makeVarRef("u1"), cs) :
        cs \in UNION {
            {<<makeCaseExp("R3", <<makeVarDecl("x1", makeAnyTExp),
                                   makeVarDecl("x2", makeAnyTExp)>>, <<makeVarRef(x)>>)>>,
              <<makeCaseExp("R1", <<makeVarDecl("x1", makeAnyTExp)>>, <<makeVarRef("x1")>>),
                makeCaseExp("R3", <<makeVarDecl("x1", makeAnyTExp),
                                   makeVarDecl("x2", makeAnyTExp)>>, <<makeVarRef(x)>>)>>} :
            x \in {"x1", "x2"}}}
\* The inputs of typeofTypeCase: a program and a type-case
TypeCaseInputs ==
    (TypeCasePrograms \X TypeCaseExps) \cup (ReorderedPrograms \X FieldCaseExps)

\* The applications: a lambda of one union parameter, a lambda of a number and
\* a string, a primitive, a number, a record variable or an unbound variable,
\* applied to at most two operands
Rators ==
    {makeProcExp(<<makeVarDecl("u", makeUserDefinedNameTExp(n))>>, <<makeNumExp(1)>>,
                 makeNumTExp) : n \in {"U1", "U2"}}
    \cup {makeProcExp(<<makeVarDecl("a", makeNumTExp), makeVarDecl("b", makeStrTExp)>>,
                      <<makeBoolExp(TRUE)>>, makeBoolTExp),
          makePrimOp("+"), makeNumExp(1), makeVarRef("r1"), makeVarRef("undefined")}
Rands ==
    {makeNumExp(1), makeStrExp("a"), makeBoolExp(TRUE), makeVarRef("r1"), makeVarRef("u1"),
     makeAppExp(makeVarRef("make-R1"), <<makeNumExp(1)>>), makeVarRef("undefined")}
AppExps == {makeAppExp(rator, rands) : rator \in Rators, rands \in SeqsUpTo(Rands, 2)}

\* The let expressions: x declared of a union, a record or number and
\* initialised with a record, a union, a number or a string
LetExps ==
    {makeLetExp(<<makeBinding(makeVarDecl("x", t), v)>>, <<body>>) :
        t \in {makeUserDefinedNameTExp("U1"), makeUserDefinedNameTExp("R1"), makeNumTExp},
        v \in {makeVarRef("r1"), makeVarRef("u1"), makeNumExp(1), makeStrExp("a"),
               makeAppExp(makeVarRef("make-R1"), <<makeNumExp(1)>>)},
        body \in {makeVarRef("x"), makeNumExp(1)}}

anExp == makeNumExp(1)
noCall == [op |-> "none"]

(***************************************************************************)
(* part2: tables and the state of a reactive table service                 *)
(***************************************************************************)
MISSING_KEY == "___MISSING_KEY___"
Keys == {"a"}
\* a table maps each key it holds to a value of 1..MaxVal; 0 marks a key the
\* table does not hold
Tables == [Keys -> 0..MaxVal]
emptyTable == [k \in Keys |-> 0]
in(key, table) == table[key] # 0
\* {...table, [key]: val}
spreadWith(table, key, val) == [table EXCEPT ![key] = val]
\* the rest of table without key: let {[key]: val, ...newTable} = table
spreadWithout(table, key) == [table EXCEPT ![key] = 0]
Errors == {"syncFailed"}
noGet == [key |-> "", tag |-> "none", value |-> 0, error |-> "", after |-> 0]
\* the service is not in use while the type checker runs
NoService ==
    /\ optimistic = FALSE
    /\ observers = <<>>
    /\ _table = emptyTable
    /\ remote = emptyTable
    /\ ops = <<>>
    /\ last = 0
    /\ got = noGet

(***************************************************************************)
(* The entry points, each applied once to a freshly parsed program         *)
(***************************************************************************)
Init ==
    /\ p = null
    /\ ramda \in {"filterShorter", "filterSecond"}
    /\ call = noCall
    /\ ast = null
    /\ res = null
    /\ NoService

Fresh == call = noCall

\* the entry point named in c is handed prog and e, leaves them as pAfter and
\* eAfter, and returns r
Runs(c, pAfter, eAfter, r) ==
    /\ call' = c
    /\ p' = pAfter
    /\ ast' = eAfter
    /\ res' = r
    /\ UNCHANGED ramda
    /\ UNCHANGED serviceVars

IsSubType ==
    /\ Fresh
    /\ \E prog \in Programs : \E te1 \in TExps(prog), te2 \in TExps(prog) :
        Runs([op |-> "isSubType", prog |-> prog, te1 |-> te1, te2 |-> te2],
             prog, null, [tag |-> "Bool", value |-> isSubType(te1, te2, prog)])

CheckEqualType ==
    /\ Fresh
    /\ \E prog \in Programs : \E te1 \in TExps(prog), te2 \in TExps(prog) :
        Runs([op |-> "checkEqualType", prog |-> prog, te1 |-> te1, te2 |-> te2],
             prog, anExp, checkEqualType(te1, te2, anExp, prog))

GetParentsType ==
    /\ Fresh
    /\ \E prog \in Programs : \E te \in TExps(prog) :
        Runs([op |-> "getParentsType", prog |-> prog, te |-> te],
             prog, null, [tag |-> "List", value |-> getParentsType(te, prog)])

CoverTypes ==
    /\ Fresh
    /\ \E prog \in Programs : \E a \in TExps(prog), b \in TExps(prog) :
        Runs([op |-> "coverTypes", prog |-> prog, types |-> <<a, b>>],
             prog, null, [tag |-> "List", value |-> coverTypes(<<a, b>>, prog)])

CheckCoverType ==
    /\ Fresh
    /\ \E prog \in Programs : \E a \in TExps(prog), b \in TExps(prog) :
        Runs([op |-> "checkCoverType", prog |-> prog, types |-> <<a, b>>],
             prog, null, checkCoverType(<<a, b>>, prog))

InitTEnv ==
    /\ Fresh
    /\ \E types \in Programs, defs \in DefineLists, front \in BOOLEAN :
        LET prog == makeProgram(IF front THEN defs \o types.exps ELSE types.exps \o defs)
        IN  Runs([op |-> "initTEnv", prog |-> prog],
                 prog, null, [tag |-> "TEnv", value |-> initTEnv(prog)])

CheckUserDefinedTypes ==
    /\ Fresh
    /\ \E prog \in UDTPrograms :
        Runs([op |-> "checkUserDefinedTypes", prog |-> prog],
             prog, null, checkUserDefinedTypes(prog))

CheckTypeCase ==
    /\ Fresh
    /\ \E prog \in TypeCasePrograms, tc \in TypeCaseExps :
        Runs([op |-> "checkTypeCase", prog |-> prog, exp |-> tc],
             prog, afterCheckTypeCase(tc, prog), checkTypeCase(tc, prog))

TypeofIf ==
    /\ Fresh
    /\ \E prog \in Programs, e \in IfExps :
        Runs([op |-> "typeofIf", prog |-> prog, exp |-> e],
             prog, e, typeofIf(e, scopeTEnv(prog), prog))

TypeofDefine ==
    /\ Fresh
    /\ \E prog \in Programs, e \in DefineExps :
        Runs([op |-> "typeofDefine", prog |-> prog, exp |-> e],
             prog, e, typeofDefine(e, scopeTEnv(prog), prog))

TypeofTypeCase ==
    /\ Fresh
    /\ \E input \in TypeCaseInputs :
        LET prog == input[1]
            e == input[2]
        IN  Runs([op |-> "typeofTypeCase", prog |-> prog, exp |-> e],
                 prog, afterTypeofTypeCase(e, scopeTEnv(prog), prog),
                 typeofTypeCase(e, scopeTEnv(prog), prog))

TypeofLetrec ==
    /\ Fresh
    /\ \E prog \in TypeCasePrograms, e \in LetrecExps :
        Runs([op |-> "typeofLetrec", prog |-> prog, exp |-> e],
             prog, e, typeofLetrec(e, scopeTEnv(prog), prog))

TypeofLet ==
    /\ Fresh
    /\ \E prog \in TypeCasePrograms, e \in LetExps :
        Runs([op |-> "typeofLet", prog |-> prog, exp |-> e],
             prog, e, typeofLet(e, scopeTEnv(prog), prog))

TypeofApp ==
    /\ Fresh
    /\ \E prog \in TypeCasePrograms, e \in AppExps :
        Runs([op |-> "typeofApp", prog |-> prog, exp |-> e],
             prog, e, typeofApp(e, scopeTEnv(prog), prog))

Next ==
    \/ IsSubType
    \/ CheckEqualType
    \/ GetParentsType
    \/ CoverTypes
    \/ CheckCoverType
    \/ InitTEnv
    \/ CheckUserDefinedTypes
    \/ CheckTypeCase
    \/ TypeofIf
    \/ TypeofDefine
    \/ TypeofTypeCase
    \/ TypeofLetrec
    \/ TypeofLet
    \/ TypeofApp

Spec == Init /\ [][Next]_vars

(***************************************************************************)
(* part2: makeReactiveTableService.  A call of set or delete runs up to    *)
(* its next await in one step; calls may be made while others are pending. *)
(***************************************************************************)
\* the service as makeReactiveTableService returns it: no observers, _table
\* the table its first sync() resolved with
InitService ==
    /\ p = null /\ ramda = "filterShorter" /\ call = noCall /\ ast = null /\ res = null
    /\ optimistic \in BOOLEAN
    /\ observers = <<>>
    /\ remote \in Tables
    /\ _table = remote
    /\ ops = <<>>
    /\ last = 0
    /\ got = noGet

\* a call of set or delete up to its first await: sync() is issued
newOp(kind, key, val) ==
    [kind |-> kind, key |-> key, val |-> val, pc |-> "read",
     pre |-> emptyTable, newTable |-> emptyTable, write |-> "notIssued",
     syncError |-> "", error |-> "", notes |-> <<>>]
\* handleMutation(table) within call op: every observer is called with table
handleMutation(op, table) ==
    [op EXCEPT !.notes = Append(@, [table |-> table, to |-> observers, write |-> op.write])]
mutated(op, table) ==
    IF op.kind = "set" THEN spreadWith(table, op.key, op.val)
    ELSE spreadWithout(table, op.key)
Steps(i, op) ==
    /\ ops' = [ops EXCEPT ![i] = op]
    /\ last' = i

get(key) ==
    IF in(key, _table)
    THEN [key |-> key, tag |-> "return", value |-> _table[key], error |-> ""]
    ELSE [key |-> key, tag |-> "throw", value |-> 0, error |-> MISSING_KEY]

\* the one get of a run
Get ==
    /\ got = noGet
    /\ \E key \in Keys :
        got' = [key |-> key, tag |-> get(key).tag, value |-> get(key).value,
                error |-> get(key).error,
                after |-> IF last > 0 /\ ops[last].pc = "resolved" THEN last ELSE 0]
    /\ UNCHANGED <<checkerVars, optimistic, observers, _table, remote, ops, last>>

Subscribe ==
    /\ Len(observers) < MaxObservers
    /\ observers' = Append(observers, Len(observers) + 1)
    /\ UNCHANGED <<checkerVars, optimistic, _table, remote, ops, last, got>>

Set ==
    /\ Len(ops) < MaxOps
    /\ \E key \in Keys, val \in 1..MaxVal :
        /\ ops' = Append(ops, newOp("set", key, val))
        /\ last' = Len(ops) + 1
    /\ UNCHANGED <<checkerVars, optimistic, observers, _table, remote, got>>

Delete ==
    /\ Len(ops) < MaxOps
    /\ \E key \in Keys :
        /\ ops' = Append(ops, newOp("delete", key, 0))
        /\ last' = Len(ops) + 1
    /\ UNCHANGED <<checkerVars, optimistic, observers, _table, remote, got>>

\* _table = await sync() resolves; the call goes on to its next await
ReadResolves ==
    /\ \E i \in 1..Len(ops) :
        /\ ops[i].pc = "read"
        /\ _table' = remote
        /\ LET op == [ops[i] EXCEPT !.pre = remote, !.newTable = mutated(ops[i], remote)]
           IN  IF optimistic
               THEN Steps(i, [handleMutation(op, op.newTable) EXCEPT !.pc = "notified"])
               ELSE Steps(i, [op EXCEPT !.write = "pending", !.pc = "write"])
    /\ UNCHANGED <<checkerVars, optimistic, observers, remote, got>>

\* _table = await sync() rejects: the call rejects
ReadRejects ==
    /\ \E i \in 1..Len(ops), error \in Errors :
        /\ ops[i].pc = "read"
        /\ Steps(i, [ops[i] EXCEPT !.pc = "rejected", !.error = error])
    /\ UNCHANGED <<checkerVars, optimistic, observers, _table, remote, got>>

\* optimistic: after await handleMutation(newTable), sync(newTable) is issued
IssueSync ==
    /\ \E i \in 1..Len(ops) :
        /\ ops[i].pc = "notified"
        /\ Steps(i, [ops[i] EXCEPT !.write = "pending", !.pc = "write"])
    /\ UNCHANGED <<checkerVars, optimistic, observers, _table, remote, got>>

\* await sync(newTable) resolves
WriteResolves ==
    /\ \E i \in 1..Len(ops) :
        /\ ops[i].pc = "write"
        /\ remote' = ops[i].newTable
        /\ LET op == [ops[i] EXCEPT !.write = "resolved"]
           IN  IF optimistic
               THEN Steps(i, [op EXCEPT !.pc = "resolved"])
               ELSE Steps(i, [handleMutation(op, op.newTable) EXCEPT !.pc = "announced"])
    /\ UNCHANGED <<checkerVars, optimistic, observers, _table, got>>

\* await sync(newTable) rejects
WriteRejects ==
    /\ \E i \in 1..Len(ops), error \in Errors :
        /\ ops[i].pc = "write"
        /\ LET op == [ops[i] EXCEPT !.write = "rejected", !.syncError = error]
           IN  IF optimistic
               THEN Steps(i, [handleMutation(op, _table) EXCEPT !.pc = "rolledBack"])
               ELSE Steps(i, [op EXCEPT !.pc = "rejected", !.error = error])
    /\ UNCHANGED <<checkerVars, optimistic, observers, _table, remote, got>>

\* after the last await handleMutation the call resolves, or rethrows the error
\* it caught
Settles ==
    /\ \E i \in 1..Len(ops) :
        \/ /\ ops[i].pc = "announced"
           /\ Steps(i, [ops[i] EXCEPT !.pc = "resolved"])
        \/ /\ ops[i].pc = "rolledBack"
           /\ Steps(i, [ops[i] EXCEPT !.pc = "rejected", !.error = ops[i].syncError])
    /\ UNCHANGED <<checkerVars, optimistic, observers, _table, remote, got>>

NextService ==
    \/ Get
    \/ Subscribe
    \/ Set
    \/ Delete
    \/ ReadResolves
    \/ ReadRejects
    \/ IssueSync
    \/ WriteResolves
    \/ WriteRejects
    \/ Settles

SpecService == InitService /\ [][NextService]_vars

(***************************************************************************)
(* The properties                                                          *)
(***************************************************************************)
N(name) == makeUserDefinedNameTExp(name)
StructuresOf(l) == {Structure(l[i]) : i \in 1..Len(l)}

\* the type definition of prog that U denotes, as a set of at most one element
UnionDenoted(U, prog) ==
    IF isUserDefinedTExp(U) THEN {ud \in Range(getTypeDefinitions(prog)) : ud = U}
    ELSE IF isUserDefinedNameTExp(U) /\ isOk(getUserDefinedTypeByName(U.typeName, prog))
         THEN {getUserDefinedTypeByName(U.typeName, prog).value}
    ELSE {}

\* R, a record value or a name, is one of the cases that ud declares
CaseOf(R, ud) ==
    \E i \in 1..Len(ud.records) :
        \/ isRecord(R) /\ equals(R, ud.records[i])
        \/ isUserDefinedNameTExp(R) /\ R.typeName = ud.records[i].typeName

RecordOfUnion(R, U, prog) == \E ud \in UnionDenoted(U, prog) : CaseOf(R, ud)

\* C1: for every record R that is a case of union U, checkEqualType(R, U)
\* succeeds and yields U, and checkEqualType(U, R) fails with 'Incompatible
\* types'.
C1_RecordAcceptedAsUnionNotViceVersa ==
    call.op = "checkEqualType" =>
        /\ RecordOfUnion(call.te1, call.te2, call.prog) => res = makeOk(call.te2)
        /\ RecordOfUnion(call.te2, call.te1, call.prog) =>
                isFailure(res) /\ res.message.text = "Incompatible types"

\* C2: typeofDefine returns void only if the type computed for the value, in
\* the environment extended with the defined variable, is compatible with the
\* declared type.
C2_DefineChecksValueType ==
    call.op = "typeofDefine" /\ isOk(res) =>
        LET e == call.exp
            valTE == typeofExp(e.val,
                        makeExtendTEnv(<<e.var.var>>, <<e.var.texp>>, scopeTEnv(call.prog)),
                        call.prog)
        IN  /\ res.value = makeVoidTExp
            /\ isOk(valTE)
            /\ isOk(checkEqualType(valTE.value, e.var.texp, e, call.prog))

RefersTo(f, typeName) ==
    f.te.tag \in {"UserDefinedTExp", "UserDefinedNameTExp"} /\ f.te.typeName = typeName
SelfReferential(def) ==
    \E i \in 1..Len(def.records) : \E j \in 1..Len(def.records[i].fields) :
        RefersTo(def.records[i].fields[j], def.typeName)
HasBaseCase(def) ==
    \E i \in 1..Len(def.records) : \A j \in 1..Len(def.records[i].fields) :
        ~RefersTo(def.records[i].fields[j], def.typeName)
BaseCaseRequirement(prog) ==
    \A def \in Range(getTypeDefinitions(prog)) : SelfReferential(def) => HasBaseCase(def)

\* C3: where the record declarations are consistent, checkUserDefinedTypes
\* passes exactly when every type definition that has a field of its own type
\* has a record none of whose fields references it.
C3_BaseCaseExactly ==
    call.op = "checkUserDefinedTypes" /\ compareRecords(call.prog) =>
        (isOk(res) <=> BaseCaseRequirement(call.prog))

ClauseNames(tc) == {tc.cases[i].typeName : i \in 1..Len(tc.cases)}
RecordNamesOf(ud) == {ud.records[i].typeName : i \in 1..Len(ud.records)}
\* the clauses name exactly the records of ud, each once, with as many
\* variables as the record has fields
ExactClauses(tc, ud) ==
    /\ \A i \in 1..Len(ud.records) :
            Cardinality({k \in 1..Len(tc.cases) :
                            tc.cases[k].typeName = ud.records[i].typeName}) = 1
    /\ \A k \in 1..Len(tc.cases) : \E i \in 1..Len(ud.records) :
            /\ tc.cases[k].typeName = ud.records[i].typeName
            /\ Len(tc.cases[k].varDecls) = Len(ud.records[i].fields)

\* C4: for a type-case over a union, checkTypeCase succeeds exactly when the
\* clauses name the records of the union, each once, in any order, with the
\* right number of variables; otherwise it fails, with 'Invalid type-case'
\* when every clause names a record of the union.
C4_TypeCaseTotality ==
    call.op = "checkTypeCase"
        /\ isOk(getUserDefinedTypeByName(call.exp.typeName, call.prog)) =>
        LET tc == call.exp
            ud == getUserDefinedTypeByName(tc.typeName, call.prog).value
        IN  /\ isOk(res) <=> ExactClauses(tc, ud)
            /\ ~ExactClauses(tc, ud) /\ ClauseNames(tc) \subseteq RecordNamesOf(ud) =>
                    isFailure(res) /\ res.message.text = "Invalid type-case"
            /\ ~(ClauseNames(tc) \subseteq RecordNamesOf(ud)) => isFailure(res)

\* a type-case over a union of two records, its clauses not in name order, is accepted
C4_Witness ==
    /\ call.op = "checkTypeCase"
    /\ isOk(res)
    /\ Len(call.exp.cases) = 2
    /\ localeCompare(call.exp.cases[1].typeName, call.exp.cases[2].typeName) > 0

\* t is a most specific member of cover: in it, with no other member below it
MostSpecificIn(t, cover, prog) ==
    /\ includesEq(cover, t)
    /\ \A i \in 1..Len(cover) : isSubType(cover[i], t, prog) => equals(cover[i], t)

C6_AnyIsNoCover ==
    call.op = "checkCoverType" => isFailure(res) \/ ~isAnyTExp(res.value)

\* C7: checkEqualType(t, t) succeeds and returns t.
C7_CheckEqualTypeReflexive ==
    call.op = "checkEqualType" /\ call.te1 = call.te2 => res = makeOk(call.te1)

\* checkEqualType has compared a record value with itself
C7_Witness ==
    /\ call.op = "checkEqualType"
    /\ call.te1 = call.te2
    /\ isRecord(call.te1)
    /\ isOk(res)

\* C8: isSubType(t, any) is true and checkEqualType(t, any) succeeds with any,
\* also for a name that the program does not define.
C8_AnyAbsorbs ==
    /\ call.op = "isSubType" /\ isAnyTExp(call.te2) => res.value = TRUE
    /\ call.op = "checkEqualType" /\ isAnyTExp(call.te2) => res = makeOk(makeAnyTExp)

\* checkEqualType has accepted as any a name that its program does not define
C8_Witness ==
    /\ call.op = "checkEqualType"
    /\ isAnyTExp(call.te2)
    /\ isUserDefinedNameTExp(call.te1)
    /\ isFailure(getTypeByName(call.te1.typeName, call.prog))
    /\ res = makeOk(makeAnyTExp)

\* C9: coverTypes([a, b]) and coverTypes([b, a]) hold the same set of types:
\* those that are in the parent chain of a and in the parent chain of b.
C9_CoverCommutative ==
    call.op = "coverTypes" =>
        LET a == call.types[1]
            b == call.types[2]
        IN  /\ StructuresOf(res.value) = StructuresOf(coverTypes(<<b, a>>, call.prog))
            /\ StructuresOf(res.value) =
                    StructuresOf(getParentsType(a, call.prog))
                    \cap StructuresOf(getParentsType(b, call.prog))

\* the cover of a record and a different record of the same union is non-empty
\* and smaller than either parent chain
C9_Witness ==
    /\ call.op = "coverTypes"
    /\ call.types[1] # call.types[2]
    /\ res.value # <<>>
    /\ Len(res.value) < Len(getParentsType(call.types[1], call.prog))
    /\ Len(res.value) < Len(getParentsType(call.types[2], call.prog))

\* the defined names, type names and record names of prog are all different
NoCollision(prog) ==
    LET defs == getDefinitions(prog)
        uds == getTypeDefinitions(prog)
        recs == getRecords(prog)
    IN  NoRepeat([i \in 1..Len(defs) |-> defs[i].var.var]
                 \o [i \in 1..Len(uds) |-> uds[i].typeName]
                 \o [i \in 1..Len(recs) |-> recs[i].typeName])

\* C10: when no names collide, initTEnv binds every define to its declared
\* type, every type U to its value and U? to (any -> boolean), and every
\* record R to its value, R? to (any -> boolean) and make-R to the procedure
\* from R's field types, in declaration order, to R.
C10_InitTEnvBindings ==
    call.op = "initTEnv" /\ NoCollision(call.prog) =>
        LET env == res.value
            defs == getDefinitions(call.prog)
            uds == getTypeDefinitions(call.prog)
            recs == getRecords(call.prog)
        IN  /\ \A i \in 1..Len(defs) :
                    applyTEnv(env, defs[i].var.var) = makeOk(defs[i].var.texp)
            /\ \A i \in 1..Len(uds) :
                    /\ applyTEnv(env, uds[i].typeName) = makeOk(uds[i])
                    /\ applyTEnv(env, uds[i].typeName \o "?") =
                            makeOk(makeProcTExp(<<makeAnyTExp>>, makeBoolTExp))
            /\ \A i \in 1..Len(recs) :
                    /\ applyTEnv(env, recs[i].typeName) = makeOk(recs[i])
                    /\ applyTEnv(env, recs[i].typeName \o "?") =
                            makeOk(makeProcTExp(<<makeAnyTExp>>, makeBoolTExp))
                    /\ applyTEnv(env, "make-" \o recs[i].typeName) =
                            makeOk(makeProcTExp(
                                [j \in 1..Len(recs[i].fields) |-> recs[i].fields[j].te],
                                recs[i]))

\* initTEnv has run on a program with two defines and two types, one of them
\* with a record of two fields, and no colliding names
C10_Witness ==
    /\ call.op = "initTEnv"
    /\ NoCollision(call.prog)
    /\ Len(getDefinitions(call.prog)) = 2
    /\ Len(getTypeDefinitions(call.prog)) = 2
    /\ \E i \in 1..Len(getRecords(call.prog)) : Len(getRecords(call.prog)[i].fields) = 2

\* the type a lambda declares: its parameter types and its return type
DeclaredProcTExp(proc) ==
    makeProcTExp([j \in 1..Len(proc.args) |-> proc.args[j].texp], proc.returnTE)
\* the frame that binds every name of a letrec to the type its lambda declares
DeclaredFrame(e, tenv) ==
    makeExtendTEnv([i \in 1..Len(e.bindings) |-> e.bindings[i].var.var],
                   [i \in 1..Len(e.bindings) |-> DeclaredProcTExp(e.bindings[i].val)],
                   tenv)
\* the i-th procedure body of a letrec, typed with its parameters over the frame
BodyTypeInFrame(e, i, tenv, prog) ==
    typeofExps(e.bindings[i].val.body,
               makeExtendTEnv([j \in 1..Len(e.bindings[i].val.args) |->
                                    e.bindings[i].val.args[j].var],
                              [j \in 1..Len(e.bindings[i].val.args) |->
                                    e.bindings[i].val.args[j].texp],
                              DeclaredFrame(e, tenv)),
               prog)
MutualRecursion ==
    makeLetrecExp(
        <<makeBinding(makeVarDecl("f", makeTVar("T1")),
                      Lambda(CallOf("g", makeVarRef("x")), makeNumTExp)),
          makeBinding(makeVarDecl("g", makeTVar("T2")),
                      Lambda(CallOf("f", makeVarRef("x")), makeNumTExp))>>,
        <<CallOf("f", makeNumExp(1))>>)

\* C11: typeofLetrec fails when a bound value is no procedure; otherwise it
\* succeeds exactly when every procedure body, typed with every bound name
\* visible at the type its lambda declares, has a type compatible with the
\* declared return type and the letrec body types in the frame of the bound
\* names, whose type is then the result; two procedures that call each other
\* type-check.
C11_LetrecSharedFrame ==
    call.op = "typeofLetrec" =>
        LET e == call.exp
            tenv == scopeTEnv(call.prog)
            allProcs == \A i \in 1..Len(e.bindings) : isProcExp(e.bindings[i].val)
        IN  /\ ~allProcs => isFailure(res)
            /\ allProcs =>
                    /\ isOk(res) <=>
                            /\ \A i \in 1..Len(e.bindings) :
                                    /\ isOk(BodyTypeInFrame(e, i, tenv, call.prog))
                                    /\ isOk(checkEqualType(
                                            BodyTypeInFrame(e, i, tenv, call.prog).value,
                                            e.bindings[i].val.returnTE, e, call.prog))
                            /\ isOk(typeofExps(e.body, DeclaredFrame(e, tenv), call.prog))
                    /\ isOk(res) => res = typeofExps(e.body, DeclaredFrame(e, tenv), call.prog)
            /\ e = MutualRecursion => res = makeOk(makeNumTExp)

\* a letrec of two procedures that call each other has type-checked
C11_Witness ==
    /\ call.op = "typeofLetrec"
    /\ call.exp = MutualRecursion
    /\ res = makeOk(makeNumTExp)

\* C12: in a let whose initializer types, a binding declared of union U with
\* an initializer of type R, a record case of U, is accepted and a binding
\* declared R with an initializer of type U is rejected.
C12_LetDeclaredIsExpected ==
    call.op = "typeofLet" =>
        LET b == call.exp.bindings[1]
            declared == b.var.texp
            valTE == typeofExp(b.val, scopeTEnv(call.prog), call.prog)
        IN  isOk(valTE) =>
                /\ RecordOfUnion(valTE.value, declared, call.prog) => isOk(res)
                /\ RecordOfUnion(declared, valTE.value, call.prog) => isFailure(res)

\* C13: getParentsType returns the singleton of t for every primitive type t
\* (number, boolean, string, void, literal, any), every procedure type and
\* every user-defined type value, and the cover of two types that are the same
\* primitive type, the type of quoted literals included, is not empty.
C13_PrimitiveIsItsOwnParent ==
    /\ call.op = "getParentsType"
            /\ (call.te \in PrimitiveTExps \cup ProcTExps \/ isUserDefinedTExp(call.te))
        => res.value = <<call.te>>
    /\ call.op = "coverTypes"
            /\ call.types[1] \in PrimitiveTExps /\ call.types[2] = call.types[1]
        => ~isEmpty(res.value)

\* C14: type checking mutates nothing: after checkTypeCase or typeofTypeCase
\* on a type-case the expression is the one that was handed in, its clauses in
\* source order, and the program is unchanged.
C14_TypeCaseLeftUnchanged ==
    call.op \in {"checkTypeCase", "typeofTypeCase"} =>
        /\ ast = call.exp
        /\ ast.cases = call.exp.cases
        /\ p = call.prog

\* the fields of the record named R as the type definition U declares them
FieldsDeclaredIn(U, R, prog) ==
    LET ud == getUserDefinedTypeByName(U, prog).value
        i == CHOOSE i \in 1..Len(ud.records) : ud.records[i].typeName = R
    IN  ud.records[i].fields
\* the type of the body of clause c of a type-case over U, its i-th variable
\* bound to the type of the i-th field of the record as U declares it
ClauseTypeDeclared(c, U, tenv, prog) ==
    typeofExps(c.body,
               makeExtendTEnv([i \in 1..Len(c.varDecls) |-> c.varDecls[i].var],
                              [i \in 1..Len(c.varDecls) |->
                                    FieldsDeclaredIn(U, c.typeName, prog)[i].te],
                              tenv),
               prog)

\* C15: when a type-case over U passes validation, each clause's body is typed
\* with the clause's i-th variable at the type of the i-th field of its record
\* as U declares it, also when another type definition declares a record of
\* that name with the same fields in another order: a type-case of clauses that
\* each return one of their variables has the cover of those fields' types.
C15_ClauseVariablesInFieldOrder ==
    call.op = "typeofTypeCase"
        /\ isOk(checkUserDefinedTypes(call.prog))
        /\ isOk(typeCaseConstraints(call.exp, scopeTEnv(call.prog), call.prog)) =>
        LET e == call.exp
            tenv == scopeTEnv(call.prog)
            clauseTypes == [k \in 1..Len(e.cases) |->
                                ClauseTypeDeclared(e.cases[k], e.typeName, tenv, call.prog)]
        IN  (\A k \in 1..Len(e.cases) : isOk(clauseTypes[k])) =>
                (isOk(res) <=> isOk(checkCoverType(
                                    [k \in 1..Len(e.cases) |-> clauseTypes[k].value],
                                    call.prog)))
                /\ (isOk(res) =>
                        res = checkCoverType(
                                [k \in 1..Len(e.cases) |-> clauseTypes[k].value], call.prog))

\* the check of the i-th operand of app against the i-th parameter type
RandCheck(app, paramTEs, i, tenv, prog) ==
    bind(typeofExp(app.rands[i], tenv, prog),
         LAMBDA typeOfRand : checkEqualType(typeOfRand, paramTEs[i], app, prog))
\* the operand has the parameter's type or is a record case of the union it names
RandFits(rand, paramTE, tenv, prog) ==
    LET t == typeofExp(rand, tenv, prog)
    IN  isOk(t) /\ (equals(t.value, paramTE) \/ RecordOfUnion(t.value, paramTE, prog))

\* C16: typeofApp reports, in this order, the first of: the operator is no
\* procedure ('Application of non-procedure'); the operand count differs from
\* the parameter count ('Wrong parameter numbers'); the leftmost operand whose
\* type checkEqualType(argType, paramType) rejects. Otherwise the result is
\* the declared return type, and this is the case when every operand has its
\* parameter's type or is a record passed where its union is declared.
C16_AppChecksInOrder ==
    call.op = "typeofApp" =>
        LET app == call.exp
            tenv == scopeTEnv(call.prog)
            ratorTE == typeofExp(app.rator, tenv, call.prog)
        IN  /\ isFailure(ratorTE) => res = ratorTE
            /\ isOk(ratorTE) /\ ~isProcTExp(ratorTE.value) =>
                    isFailure(res) /\ res.message.text = "Application of non-procedure"
            /\ isOk(ratorTE) /\ isProcTExp(ratorTE.value) =>
                    LET paramTEs == ratorTE.value.paramTEs
                        n == Len(app.rands)
                    IN  /\ n # Len(paramTEs) =>
                                /\ isFailure(res)
                                /\ res.message.text = "Wrong parameter numbers passed to proc"
                        /\ n = Len(paramTEs) =>
                                /\ \A i \in 1..n :
                                        /\ isFailure(RandCheck(app, paramTEs, i, tenv, call.prog))
                                        /\ \A j \in 1..(i - 1) :
                                                isOk(RandCheck(app, paramTEs, j, tenv, call.prog))
                                        => res = RandCheck(app, paramTEs, i, tenv, call.prog)
                                /\ (\A i \in 1..n :
                                        isOk(RandCheck(app, paramTEs, i, tenv, call.prog)))
                                        => res = makeOk(ratorTE.value.returnTE)
                                /\ (\A i \in 1..n :
                                        RandFits(app.rands[i], paramTEs[i], tenv, call.prog))
                                        => res = makeOk(ratorTE.value.returnTE)

\* C17: for every call of set or delete. Not optimistic: the observers are
\* notified with the new table only, and only after sync(newTable) has
\* resolved, and never when it rejects. Optimistic: the observers are notified
\* with the new table before sync(newTable) is issued, and when it rejects
\* they are notified again with the table the call read before its mutation
\* and the call rejects with the error of sync.
C17_NotifiedAroundSync ==
    \A i \in 1..Len(ops) :
        LET op == ops[i]
        IN  /\ ~optimistic =>
                /\ \A n \in 1..Len(op.notes) :
                        op.notes[n].table = op.newTable /\ op.notes[n].write = "resolved"
                /\ op.pc = "resolved" => Len(op.notes) = 1
                /\ op.write = "rejected" => op.notes = <<>>
            /\ optimistic =>
                /\ op.write # "notIssued" =>
                        /\ Len(op.notes) >= 1
                        /\ op.notes[1].table = op.newTable
                        /\ op.notes[1].write = "notIssued"
                /\ op.write = "rejected" /\ op.pc = "rejected" =>
                        /\ Len(op.notes) = 2
                        /\ op.notes[2].table = op.pre
                        /\ op.error = op.syncError

\* C18: a get of key made right after a call set(key, val) has resolved
\* returns val, and one made right after a call delete(key) has resolved
\* throws MISSING_KEY.
C18_GetReflectsOwnMutation ==
    got.after > 0 /\ got.key = ops[got.after].key =>
        /\ ops[got.after].kind = "set" =>
                got.tag = "return" /\ got.value = ops[got.after].val
        /\ ops[got.after].kind = "delete" =>
                got.tag = "throw" /\ got.error = MISSING_KEY

====
